---- MODULE Spec2Model ----
(***************************************************************************)
(* Dialog widgets of the ebook editor (calibre/gui2/tweak_book/widgets.py):*)
(* the Results widget and QuickOpen dialog, make_highlighted_text,         *)
(* ImportForeign, InsertSemantics, InsertLink, and the Dialog base class   *)
(* with MultiSplit.  Each dialog is a state machine driven by the events   *)
(* of the single UI thread; one action is one event handler, run to        *)
(* completion with every slot it triggers.  Dialog.accept and              *)
(* Dialog.reject are two actions each, the writes to tprefs and the call   *)
(* of QDialog, so that their order shows.                                  *)
(***************************************************************************)
EXTENDS Integers, Sequences, FiniteSets, TLC

VARIABLES
    \* ---- Results widget / QuickOpen dialog
    results,          \* Results.results: the rows, each standing for its candidate text
    current_result,   \* Results.current_result
    max_result,       \* Results.max_result
    height,           \* the widget's height in pixels (QWidget.height())
    selected_result,  \* QuickOpen.selected_result
    qo_result,        \* QuickOpen dialog: "open", "accepted" or "rejected"
    visible,          \* Results.isVisible(): hidden until the first update_matches
    \* ---- make_highlighted_text
    hl_text,          \* argument text: the raw candidate string
    hl_positions,     \* argument positions: a sequence of ints
    hl_out,           \* the returned markup
    hl_pc,            \* "call" before the call, "done" after it
    \* ---- ImportForeign dialog
    src,              \* text of the source QLineEdit
    dest,             \* text of the destination QLineEdit
    imp_result,       \* "open", "accepted" or "rejected"
    imp_error,        \* TRUE when the last event showed the error dialog
    imp_geometry,     \* number of writes of 'import-foreign-geometry' to tprefs
    \* ---- InsertSemantics dialog
    original_type_map,
    final_type_map,
    semantic_type,    \* item data of the combo box's current index
    target,           \* text of the target QLineEdit, a <<name, hash, frag>> triple
    file_sel,         \* selected row of file_names (a name) or NoSel
    anchor_sel,       \* selected row of anchor_names (an anchor) or NoSel
    anchor_names,     \* names shown by the anchor list
    anchor_cache,     \* InsertSemantics.anchor_cache
    file_filter,      \* text of file_names_filter, a sequence of characters
    file_items,       \* names the file list shows (NamesModel.items)
    sem_parsed,       \* per file name, the calls of container.parsed made so far
    guide_calls,      \* per type, the set_guide_item calls made by apply_changes
    sem_result,       \* "open", "accepted", "rejected" or "applied"
    \* ---- Dialog base class and MultiSplit
    tprefs,           \* the preferences store: key -> saved bytes, or NoPref
    dlg_name,         \* Dialog.name of the current dialog object
    dlg_pc,           \* "open", "accepting", "accepted", "rejecting" or "rejected"
    dlg_geometry,     \* the window's geometry
    dlg_splitter,     \* the splitter's state (0 when the dialog has none)
    xpath,            \* MultiSplit: text of the XPathEdit
    dlg_error,        \* what the last event did with an error message box
    \* ---- InsertLink dialog
    il_source,        \* InsertLink.source_name
    il_file_filter,   \* text of file_names_filter
    il_file_items,    \* names the file list shows
    il_file_sel,      \* selected row of file_names (a name) or NoSel
    il_anchor_filter, \* text of anchor_names_filter
    il_anchor_names,  \* NamesModel.names of the anchor list
    il_anchor_items,  \* anchors the anchor list shows
    il_anchor_sel,    \* selected row of anchor_names (an anchor) or NoSel
    il_anchor_cache,  \* InsertLink.anchor_cache
    il_parsed,        \* per file name, the calls of container.parsed made so far
    il_target,        \* text of the target QLineEdit
    il_result         \* "open", "accepted" or "rejected"

resVars == <<results, current_result, max_result, height, selected_result, qo_result,
             visible>>
hlVars  == <<hl_text, hl_positions, hl_out, hl_pc>>
impVars == <<src, dest, imp_result, imp_error, imp_geometry>>
semVars == <<original_type_map, final_type_map, semantic_type, target, file_sel,
             anchor_sel, anchor_names, anchor_cache, guide_calls, sem_result,
             file_filter, file_items, sem_parsed>>
dlgVars == <<tprefs, dlg_name, dlg_pc, dlg_geometry, dlg_splitter, xpath, dlg_error>>
linkVars == <<il_source, il_file_filter, il_file_items, il_file_sel, il_anchor_filter,
              il_anchor_names, il_anchor_items, il_anchor_sel, il_anchor_cache,
              il_parsed, il_target, il_result>>
vars == <<resVars, hlVars, impVars, semVars, dlgVars, linkVars>>

Min(a, b) == IF a <= b THEN a ELSE b

(***************************************************************************)
(* Results widget and QuickOpen                                            *)
(***************************************************************************)

\* Bounds of the model.
MaxResults == 12     \* most matches the matcher returns here (the code asks for 100)
MaxHeight == 70      \* tallest widget
RowHeight == 1       \* prefix.size().height(): the height of a row's text

\* Program constants.
MARGIN == 4
MaxRows == 10
None == -2           \* Python's None, a value that is no index and not -1

\* The matcher's answer with n matches: candidate texts 1..n, in rank order.
Matches(n) == [i \in 1..n |-> i]

\* Results.item_from_y: the loop over enumerate(self.results), i counted from 0.
RECURSIVE item_from_y_loop(_, _, _)
item_from_y_loop(i, pos, y) ==
    IF i >= Len(results) THEN -1
    ELSE LET delta == RowHeight + MARGIN
             maxy == height
             bottom == pos + delta
         IN IF pos <= y /\ y < bottom THEN i
            ELSE IF bottom > Min(y, maxy) THEN -1
            ELSE item_from_y_loop(i + 1, bottom, y)

item_from_y(y) ==
    IF results = <<>> THEN None ELSE item_from_y_loop(0, 0, y)

\* Results.selected_result read with current_result = cur: "TypeError" when the
\* index is None (a tuple cannot be indexed by None), None on IndexError.
Results_selected_result(cur) ==
    IF cur = None THEN "TypeError"
    ELSE IF cur >= Len(results) \/ cur < -Len(results) THEN None
    ELSE IF cur >= 0 THEN results[cur + 1]
    ELSE results[Len(results) + cur + 1]

\* QuickOpen.accept with Results.current_result = cur: the effect on
\* <<selected_result, qo_result>>.  A TypeError raised by the property leaves the
\* slot before anything is assigned and before Dialog.accept.
QuickOpen_accept(cur) ==
    IF cur = None
    THEN UNCHANGED <<selected_result, qo_result>>
    ELSE /\ selected_result' = Results_selected_result(cur)
         /\ qo_result' = "accepted"

\* max_result as Results.__call__ sets it for n results
max_result_for(n) == Min(MaxRows, n - 1)

\* Results.__call__, reached from QuickOpen.update_matches with n matches.
set_results(n) ==
    /\ qo_result = "open"
    /\ results' = Matches(n)
    /\ current_result' = IF n > 0 THEN 0 ELSE -1
    /\ max_result' = max_result_for(n)
    /\ visible' = TRUE
    /\ UNCHANGED <<height, selected_result, qo_result>>

\* Results.change_current: the value it leaves in current_result
new_current(delta) ==
    IF results = <<>> THEN current_result
    ELSE LET nc == current_result + delta
         IN IF 0 <= nc /\ nc <= max_result THEN nc ELSE current_result

\* Results.change_current
change_current(delta) ==
    /\ qo_result = "open"
    /\ current_result' = new_current(delta)
    /\ UNCHANGED <<results, max_result, height, selected_result, qo_result, visible>>

\* QuickOpen.keyPressEvent for Key_Up and Key_Down
keyPressEvent(key) ==
    change_current(IF key = "Key_Up" THEN -1 ELSE 1)

\* Results.mousePressEvent; button 1 is the left button.  item_selected is
\* connected to QuickOpen.accept, which runs inside emit().
mousePressEvent(button, y) ==
    /\ qo_result = "open"
    /\ visible
    /\ IF button = 1 /\ item_from_y(y) # -1
       THEN /\ current_result' = item_from_y(y)
            /\ QuickOpen_accept(item_from_y(y))
       ELSE UNCHANGED <<current_result, selected_result, qo_result>>
    /\ UNCHANGED <<results, max_result, height, visible>>

\* Variant of the paint loop that stops after MaxRows + 1 rows.
RECURSIVE paint_loop_capped(_, _, _)
paint_loop_capped(i, offset_y, mr) ==
    IF i >= Len(results) \/ i > MaxRows THEN mr
    ELSE LET bottom == height - 1
         IN IF offset_y + RowHeight > bottom THEN mr
            ELSE paint_loop_capped(i + 1,
                     offset_y + MARGIN \div 2 + RowHeight + MARGIN \div 2, i)

\* Results.paintEvent: the rows that fit set max_result, one after the other.
RECURSIVE paint_loop(_, _, _)
paint_loop(i, offset_y, mr) ==
    IF i >= Len(results) THEN mr
    ELSE LET bottom == height - 1
         IN IF offset_y + RowHeight > bottom THEN mr
            ELSE paint_loop(i + 1,
                            offset_y + MARGIN \div 2 + RowHeight + MARGIN \div 2, i)

\* Results.paintEvent: the value it leaves in max_result
painted_max_result ==
    IF results # <<>> THEN paint_loop(0, 0, max_result) ELSE max_result

paintEvent ==
    /\ qo_result = "open"
    /\ visible
    /\ max_result' = painted_max_result
    /\ UNCHANGED <<results, current_result, height, selected_result, qo_result, visible>>

\* The user resizes the dialog: the widget gets a new height.
resizeEvent(h) ==
    /\ qo_result = "open"
    /\ height' = h
    /\ UNCHANGED <<results, current_result, max_result, selected_result, qo_result,
                   visible>>

\* OK button or Enter: QuickOpen.accept
accept_QuickOpen ==
    /\ qo_result = "open"
    /\ QuickOpen_accept(current_result)
    /\ UNCHANGED <<results, current_result, max_result, height, visible>>

\* Cancel button or Escape: Dialog.reject
reject_QuickOpen ==
    /\ qo_result = "open"
    /\ qo_result' = "rejected"
    /\ UNCHANGED <<results, current_result, max_result, height, selected_result,
                   visible>>

\* Results.__init__ and QuickOpen.__init__
ResultsInit ==
    /\ results = <<>>
    /\ current_result = -1
    /\ max_result = -1
    /\ selected_result = None
    /\ qo_result = "open"
    /\ visible = FALSE
    /\ height \in 0..MaxHeight

(***************************************************************************)
(* make_highlighted_text                                                   *)
(* A string is the sequence of its characters; Python indexes it from 0.   *)
(***************************************************************************)

\* Bounds of the model.
MaxLen == 3          \* longest candidate string
MaxPositions == 3    \* longest position list

\* Characters of the candidate strings: a plain one and the three that XML-escaping
\* expands.
Alphabet == {"a", "&", "<", ">"}

\* Results.EMPH
EMPH == <<"c", "o", "l", "o", "r", ":", "m", "a", "g", "e", "n", "t", "a", ";", " ", "f", "o", "n", "t", "-", "w", "e", "i", "g", "h", "t", ":", "b", "o", "l", "d">>

Max(a, b) == IF a >= b THEN a ELSE b

\* Python's s[a:b]
PySlice(s, a, b) ==
    LET n == Len(s)
        lo == IF a < 0 THEN Max(n + a, 0) ELSE Min(a, n)
        hi == IF b < 0 THEN Max(n + b, 0) ELSE Min(b, n)
    IN IF lo >= hi THEN <<>> ELSE SubSeq(s, lo + 1, hi)

\* calibre.utils.matcher.get_char on a string without surrogate pairs: string[pos]
get_char(string, pos) ==
    <<string[(IF pos < 0 THEN Len(string) + pos ELSE pos) + 1]>>

\* calibre.prepare_string_for_xml: & < > replaced by their entities
RECURSIVE prepare_string_for_xml(_)
prepare_string_for_xml(raw) ==
    IF raw = <<>> THEN <<>>
    ELSE (CASE Head(raw) = "&" -> <<"&", "a", "m", "p", ";">>
            [] Head(raw) = "<" -> <<"&", "l", "t", ";">>
            [] Head(raw) = ">" -> <<"&", "g", "t", ";">>
            [] OTHER -> <<Head(raw)>>)
         \o prepare_string_for_xml(Tail(raw))

\* '%s<span style="%s">%s</span>%s' % (before, emph, ch, after)
span_format(before, emph, ch, after) ==
    before \o <<"<", "s", "p", "a", "n", " ", "s", "t", "y", "l", "e", "=", "\"">>
           \o emph \o <<"\"", ">">> \o ch
           \o <<"<", "/", "s", "p", "a", "n", ">">> \o after

\* set(positions)
SetOf(positions) == {positions[i] : i \in DOMAIN positions}

\* sorted(S, reverse=True)
RECURSIVE sorted_reverse(_)
sorted_reverse(S) ==
    IF S = {} THEN <<>>
    ELSE LET m == CHOOSE x \in S : \A z \in S : z <= x
         IN <<m>> \o sorted_reverse(S \ {m})

\* The loop of make_highlighted_text over the sorted positions ps; get_char raises
\* IndexError for a position outside the string, which ends the call.
RECURSIVE highlight_loop(_, _, _)
highlight_loop(emph, text, ps) ==
    IF ps = <<>> THEN text
    ELSE IF Head(ps) >= Len(text) \/ Head(ps) < -Len(text) THEN <<"IndexError">>
    ELSE LET p == Head(ps)
             ch == get_char(text, p)
         IN highlight_loop(emph,
                           span_format(PySlice(text, 0, p), emph, ch,
                                       PySlice(text, p + Len(ch), Len(text))),
                           Tail(ps))

\* Variants of make_highlighted_text with one plausible slip each.
\* -1 is not discarded:
make_highlighted_text_keeps_sentinel(emph, text, positions) ==
    highlight_loop(emph, prepare_string_for_xml(text), sorted_reverse(SetOf(positions)))

\* the text is not escaped:
make_highlighted_text_unescaped(emph, text, positions) ==
    highlight_loop(emph, text, sorted_reverse(SetOf(positions) \ {-1}))

make_highlighted_text(emph, text, positions) ==
    highlight_loop(emph, prepare_string_for_xml(text),
                   sorted_reverse(SetOf(positions) \ {-1}))

\* All sequences over S of length at most n.
SeqsUpTo(S, n) == UNION {[1..k -> S] : k \in 0..n}

\* A caller (Results.make_text, NamesDelegate.paint) is about to call
\* make_highlighted_text with a candidate string and the matcher's positions:
\* indices of the string, or the sentinel -1.
HLInit ==
    /\ hl_text \in SeqsUpTo(Alphabet, MaxLen)
    /\ hl_positions \in SeqsUpTo(-1 .. Len(hl_text) - 1, MaxPositions)
    /\ hl_out = <<>>
    /\ hl_pc = "call"

call_make_highlighted_text ==
    /\ hl_pc = "call"
    /\ hl_out' = make_highlighted_text(EMPH, hl_text, hl_positions)
    /\ hl_pc' = "done"
    /\ UNCHANGED <<hl_text, hl_positions>>

\* No call is pending.
HLIdle ==
    /\ hl_text = <<>>
    /\ hl_positions = <<>>
    /\ hl_out = <<>>
    /\ hl_pc = "done"

(***************************************************************************)
(* ImportForeign                                                           *)
(***************************************************************************)

\* Bound of the model.
MaxPath == 2         \* longest text typed into a path field

\* Characters typed into the path fields.
PathChars == {" ", "a", "."}

EPUB == <<".", "e", "p", "u", "b">>

\* Paths the file choosers can return; <<>> is a cancelled chooser.
SourcePaths == {<<>>, <<"a">>, <<"a", ".", "a">>}
SavePaths == {<<>>, <<"a">>, <<"a", ".", "e", "p", "u", "b">>,
              <<"a", ".", "E", "P", "U", "B">>}

\* unicode.strip()
RECURSIVE lstrip(_)
lstrip(s) == IF s # <<>> /\ Head(s) = " " THEN lstrip(Tail(s)) ELSE s

RECURSIVE rstrip(_)
rstrip(s) ==
    IF s # <<>> /\ s[Len(s)] = " " THEN rstrip(SubSeq(s, 1, Len(s) - 1)) ELSE s

strip(s) == rstrip(lstrip(s))

\* unicode.lower()
lower_char(c) ==
    CASE c = "E" -> "e" [] c = "P" -> "p" [] c = "U" -> "u" [] c = "B" -> "b"
      [] OTHER -> c

lower(s) == [i \in DOMAIN s |-> lower_char(s[i])]

\* unicode.endswith(suffix)
endswith(s, suffix) ==
    /\ Len(s) >= Len(suffix)
    /\ SubSeq(s, Len(s) - Len(suffix) + 1, Len(s)) = suffix

\* s.rpartition(sep)[0] for a one-character sep: what precedes the last sep, and
\* the empty string when s holds no sep.
rpartition_head(s, sep) ==
    LET at == {i \in DOMAIN s : s[i] = sep}
    IN IF at = {} THEN <<>>
       ELSE SubSeq(s, 1, (CHOOSE i \in at : \A j \in at : j <= i) - 1)

\* ImportForeign.data with the fields holding s and d
ImportForeign_data(s, d) ==
    LET src_ == strip(s)
        dest_ == strip(d)
    IN <<src_, IF dest_ = <<>> THEN rpartition_head(src_, ".") \o EPUB ELSE dest_>>

\* ImportForeign.__init__
ImportInit ==
    /\ src = <<>>
    /\ dest = <<>>
    /\ imp_result = "open"
    /\ imp_error = FALSE
    /\ imp_geometry = 0

\* The user types into the source field.
edit_src(text) ==
    /\ imp_result = "open"
    /\ src' = text
    /\ imp_error' = FALSE
    /\ UNCHANGED <<dest, imp_result, imp_geometry>>

\* The user types into the destination field.
edit_dest(text) ==
    /\ imp_result = "open"
    /\ dest' = text
    /\ imp_error' = FALSE
    /\ UNCHANGED <<src, imp_result, imp_geometry>>

\* ImportForeign.choose_source, with set_src
choose_source(path) ==
    /\ imp_result = "open"
    /\ IF path # <<>>
       THEN /\ src' = path
            /\ dest' = ImportForeign_data(path, dest)[2]
       ELSE UNCHANGED <<src, dest>>
    /\ imp_error' = FALSE
    /\ UNCHANGED <<imp_result, imp_geometry>>

\* ImportForeign.choose_destination
choose_destination(path) ==
    /\ imp_result = "open"
    /\ IF path # <<>>
       THEN dest' = IF endswith(lower(path), EPUB) THEN path ELSE path \o EPUB
       ELSE UNCHANGED dest
    /\ imp_error' = FALSE
    /\ UNCHANGED <<src, imp_result, imp_geometry>>

\* The test ImportForeign.accept makes on the source field's text.
accept_blocked(text) == text = <<>>

\* ImportForeign.accept, with Dialog.accept
accept_ImportForeign ==
    /\ imp_result = "open"
    /\ IF accept_blocked(src)
       THEN /\ imp_error' = TRUE
            /\ UNCHANGED <<imp_result, imp_geometry>>
       ELSE /\ imp_error' = FALSE
            /\ imp_geometry' = imp_geometry + 1
            /\ imp_result' = "accepted"
    /\ UNCHANGED <<src, dest>>

\* Dialog.reject
reject_ImportForeign ==
    /\ imp_result = "open"
    /\ imp_geometry' = imp_geometry + 1
    /\ imp_result' = "rejected"
    /\ imp_error' = FALSE
    /\ UNCHANGED <<src, dest>>

(***************************************************************************)
(* InsertSemantics                                                         *)
(* A type map is a function from the types that have an entry to           *)
(* <<name, frag>> pairs.  The text of the target field is kept split at    *)
(* its first '#': <<name, hash, frag>>, hash telling whether a '#' is      *)
(* there.  The filter field of the anchor list is left empty.              *)
(***************************************************************************)

\* Python's None where a string may stand.
PyNone == "<None>"
\* No row of a list view is selected.
NoSel == "<no row>"

\* The types offered by the combo box, in its order (two of known_type_map's).
KnownTypes == <<"toc", "text">>
\* A guide type that known_type_map does not list.
OtherTypes == {"cover"}
AllTypes == {KnownTypes[i] : i \in DOMAIN KnownTypes} \cup OtherTypes

\* container.spine_names
SpineNames == <<"f1", "f2">>

\* The book: root.xpath('//*/@id') and root.xpath('//h:a/@name') of
\* container.parsed(name), in document order.  f1 holds an element with id
\* i1, one with an empty id and an <a id="a" name="a">; f2 an <a name="">.
xpath_ids(name) == IF name = "f1" THEN <<"i1", "", "a">> ELSE <<>>
xpath_a_names(name) == IF name = "f1" THEN <<"a">> ELSE <<"">>

\* primary_sort_key: the rank of a string in the collation order
primary_sort_key(x) == CASE x = "" -> 0 [] x = "a" -> 1 [] x = "i1" -> 2 [] OTHER -> 3

\* sorted(S, key=primary_sort_key)
RECURSIVE sorted_by_primary_key(_)
sorted_by_primary_key(S) ==
    IF S = {} THEN <<>>
    ELSE LET first == CHOOSE x \in S :
                          \A y \in S : primary_sort_key(x) <= primary_sort_key(y)
         IN <<first>> \o sorted_by_primary_key(S \ {first})

\* The list populate_anchors stores for a file it has parsed
container_anchors(name) ==
    sorted_by_primary_key((SetOf(xpath_ids(name)) \cup SetOf(xpath_a_names(name))) \ {""})

\* The characters of the names the lists hold
name_chars(name) ==
    CASE name = "f1" -> <<"f", "1">> [] name = "f2" -> <<"f", "2">>
      [] name = "i1" -> <<"i", "1">> [] OTHER -> <<name>>

\* Matcher: a candidate matches when the query's characters occur in it in order
RECURSIVE is_subsequence(_, _)
is_subsequence(query, text) ==
    IF query = <<>> THEN TRUE
    ELSE IF text = <<>> THEN FALSE
    ELSE IF Head(query) = Head(text) THEN is_subsequence(Tail(query), Tail(text))
    ELSE is_subsequence(query, Tail(text))

\* What the user types into a filter field
FilterQueries == {<<>>, <<"1">>}

\* NamesModel.filter(query): the items the list shows afterwards
NamesModel_filter(names, query) ==
    IF query = <<>> THEN names
    ELSE SelectSeq(names, LAMBDA n : is_subsequence(query, name_chars(n)))

\* d[k] = v
MapSet(d, k, v) == [x \in DOMAIN d \cup {k} |-> IF x = k THEN v ELSE d[x]]

EmptyMap == [x \in {} |-> <<>>]

\* What the <guide> of the book's OPF can hold when the dialog opens: per type no
\* reference, or one whose href gives (name, fragment); '' is "no fragment".
GuideEntries == {<<"f1", "">>, <<"f1", "i1">>, <<"f2", "i1">>}
Guides ==
    {[k \in {t \in AllTypes : g[t] # <<>>} |-> g[k]] :
        g \in {h \in [AllTypes -> GuideEntries \cup {<<>>, <<"x", "">>}] :
                 /\ \A t \in OtherTypes : h[t] \in {<<>>, <<"x", "">>}
                 /\ \A t \in AllTypes \ OtherTypes : h[t] # <<"x", "">>}}

\* Texts the user types into the target field.
TypedTexts ==
    {<<n, hf[1], hf[2]>> : n \in {"", "f1", "f2"},
                           hf \in {<<FALSE, "">>, <<TRUE, "">>, <<TRUE, "i1">>}}

\* NamesModel.find_name: TRUE when the list holds the name
find_name(names, name) == \E i \in DOMAIN names : names[i] = name

\* name + (('#' + frag) if frag else ''), as show_type writes it
shown_text(name, frag) ==
    IF frag = PyNone \/ frag = "" THEN <<name, FALSE, "">> ELSE <<name, TRUE, frag>>

\* InsertSemantics.target_text_changed for the type typ and the field's text
target_text_changed(ftm, typ, text) ==
    MapSet(ftm, typ, <<text[1], IF text[3] = "" THEN PyNone ELSE text[3]>>)

\* target.setText(text): textChanged is emitted when the text differs and the
\* signal is connected and not blocked.
setText(ftm, typ, old, text, connected) ==
    IF connected /\ text # old THEN target_text_changed(ftm, typ, text) ELSE ftm

\* The text InsertSemantics.update_target computes for a selected file and anchor.
update_target_text(file, anchor) ==
    IF anchor # NoSel THEN <<file, TRUE, anchor>> ELSE <<file, FALSE, "">>

\* populate_anchors asking for the file on every call:
parse_calls_uncached(cache, name) == 1

\* populate_anchors: the calls of container.parsed(name) it makes
parse_calls(cache, name) == IF name \in DOMAIN cache THEN 0 ELSE 1

\* InsertSemantics.populate_anchors and InsertLink.populate_anchors: the cache
\* after it
populate_anchors(cache, name) ==
    IF name \in DOMAIN cache THEN cache
    ELSE MapSet(cache, name, container_anchors(name))

\* InsertSemantics.changed_type_map; a value is a pair and never None, so a key
\* without an original entry always differs.
\* Variant that leaves out the comparison with the original:
changed_type_map_unfiltered(ftm, otm) == ftm

changed_type_map(ftm, otm) ==
    [k \in {x \in DOMAIN ftm : x \notin DOMAIN otm \/ ftm[x] # otm[x]} |-> ftm[k]]

\* InsertSemantics.show_type for the type typ with entry (name, frag), with every
\* slot it triggers: the selections are cleared, the file is selected
\* (selected_file_changed, populate_anchors, update_target), then the anchor
\* (update_target), and last the target text is set with its signals blocked.
\* connected: target.textChanged is connected to target_text_changed.
\* items: the names the file list shows; clearing the filter fields does not
\* filter again (textEdited is for edits of the user), so find_name searches the
\* rows of the last filter.
\* sel, names: the selected file and the anchor list's names before the call;
\* clearSelection runs selected_file_changed only when a file was selected.
show_type(ftm, cache, typ, old, name, frag, connected, items, sel, names) ==
    LET has_file == name # PyNone /\ find_name(items, name)
        cache1 == IF has_file THEN populate_anchors(cache, name) ELSE cache
        names1 == IF has_file THEN cache1[name]
                  ELSE IF sel # NoSel THEN <<>> ELSE names
        text1 == IF has_file THEN update_target_text(name, NoSel) ELSE old
        ftm1 == IF has_file THEN setText(ftm, typ, old, text1, connected) ELSE ftm
        has_anchor == has_file /\ frag # PyNone /\ frag # "" /\ find_name(names1, frag)
        text2 == IF has_anchor THEN update_target_text(name, frag) ELSE text1
        ftm2 == IF has_anchor THEN setText(ftm1, typ, text1, text2, connected) ELSE ftm1
    IN [file |-> IF has_file THEN name ELSE NoSel,
        anchor |-> IF has_anchor THEN frag ELSE NoSel,
        names |-> names1,
        cache |-> cache1,
        parsed |-> IF has_file THEN parse_calls(cache, name) ELSE 0,
        parsed_name |-> name,
        target |-> IF name # PyNone THEN shown_text(name, frag) ELSE <<"", FALSE, "">>,
        ftm |-> ftm2]

\* final_type_map.get(typ, (None, None))
type_entry(ftm, typ) == IF typ \in DOMAIN ftm THEN ftm[typ] ELSE <<PyNone, PyNone>>

\* InsertSemantics.__init__ on a container whose guide gives the type map otm;
\* setup_ui ends with semantic_type_changed() before textChanged is connected.
SemInitFrom(otm) ==
    LET typ == KnownTypes[1]
        e == type_entry(otm, typ)
        st == show_type(otm, EmptyMap, typ, <<"", FALSE, "">>, e[1], e[2], FALSE,
                        SpineNames, NoSel, <<>>)
    IN /\ original_type_map = otm
       /\ file_filter = <<>>
       /\ file_items = SpineNames
       /\ sem_parsed = [n \in SetOf(SpineNames) |->
                            IF n = st.parsed_name THEN st.parsed ELSE 0]
       /\ final_type_map = st.ftm
       /\ semantic_type = typ
       /\ target = st.target
       /\ file_sel = st.file
       /\ anchor_sel = st.anchor
       /\ anchor_names = st.names
       /\ anchor_cache = st.cache
       /\ guide_calls = [t \in AllTypes |-> <<>>]
       /\ sem_result = "open"

SemInit == \E otm \in Guides : SemInitFrom(otm)

\* The user picks another entry of the combo box: semantic_type_changed
semantic_type_changed(typ) ==
    /\ sem_result = "open"
    /\ typ # semantic_type
    /\ LET e == type_entry(final_type_map, typ)
           st == show_type(final_type_map, anchor_cache, typ, target, e[1], e[2], TRUE,
                           file_items, file_sel, anchor_names)
       IN /\ semantic_type' = typ
          /\ file_filter' = <<>>
          /\ sem_parsed' = [n \in SetOf(SpineNames) |->
                  sem_parsed[n] + IF n = st.parsed_name THEN st.parsed ELSE 0]
          /\ final_type_map' = st.ftm
          /\ target' = st.target
          /\ file_sel' = st.file
          /\ anchor_sel' = st.anchor
          /\ anchor_names' = st.names
          /\ anchor_cache' = st.cache
    /\ UNCHANGED <<original_type_map, guide_calls, sem_result, file_items>>

\* The user edits the target field: textChanged, target_text_changed
target_text_edited(text) ==
    /\ sem_result = "open"
    /\ text # target
    /\ target' = text
    /\ final_type_map' = target_text_changed(final_type_map, semantic_type, text)
    /\ UNCHANGED <<original_type_map, semantic_type, file_sel, anchor_sel, anchor_names,
                   anchor_cache, guide_calls, sem_result, file_filter, file_items,
                   sem_parsed>>

\* The user selects a file of the list: selected_file_changed, populate_anchors
\* (the anchor list is reset, which drops its selection), update_target
file_selected(name) ==
    /\ sem_result = "open"
    /\ find_name(file_items, name)
    /\ name # file_sel
    /\ file_sel' = name
    /\ sem_parsed' = [sem_parsed EXCEPT ![name] = @ + parse_calls(anchor_cache, name)]
    /\ anchor_cache' = populate_anchors(anchor_cache, name)
    /\ anchor_names' = anchor_cache'[name]
    /\ anchor_sel' = NoSel
    /\ target' = update_target_text(name, NoSel)
    /\ final_type_map' = setText(final_type_map, semantic_type, target, target', TRUE)
    /\ UNCHANGED <<original_type_map, semantic_type, guide_calls, sem_result,
                   file_filter, file_items>>

\* The user deselects the selected file: selected_file_changed with no row
file_deselected ==
    /\ sem_result = "open"
    /\ file_sel # NoSel
    /\ file_sel' = NoSel
    /\ anchor_names' = <<>>
    /\ anchor_sel' = NoSel
    /\ UNCHANGED <<original_type_map, final_type_map, semantic_type, target,
                   anchor_cache, guide_calls, sem_result, file_filter, file_items,
                   sem_parsed>>

\* The user edits the filter field of the file list: NamesModel.filter, whose
\* reset() drops the selection without selectionChanged, so that
\* selected_file_changed does not run.
file_filter_edited(query) ==
    /\ sem_result = "open"
    /\ query # file_filter
    /\ file_filter' = query
    /\ file_items' = NamesModel_filter(SpineNames, query)
    /\ file_sel' = NoSel
    /\ UNCHANGED <<original_type_map, final_type_map, semantic_type, target,
                   anchor_sel, anchor_names, anchor_cache, guide_calls, sem_result,
                   sem_parsed>>

\* The user selects (anchor a name of the list) or deselects (NoSel) an anchor:
\* update_target
anchor_selected(anchor) ==
    /\ sem_result = "open"
    /\ anchor # anchor_sel
    /\ anchor_sel' = anchor
    /\ target' = IF file_sel # NoSel THEN update_target_text(file_sel, anchor) ELSE target
    /\ final_type_map' = setText(final_type_map, semantic_type, target, target', TRUE)
    /\ UNCHANGED <<original_type_map, semantic_type, file_sel, anchor_names,
                   anchor_cache, guide_calls, sem_result, file_filter, file_items,
                   sem_parsed>>

\* Dialog.accept
accept_InsertSemantics ==
    /\ sem_result = "open"
    /\ sem_result' = "accepted"
    /\ UNCHANGED <<original_type_map, final_type_map, semantic_type, target, file_sel,
                   anchor_sel, anchor_names, anchor_cache, guide_calls, file_filter,
                   file_items, sem_parsed>>

\* Dialog.reject
reject_InsertSemantics ==
    /\ sem_result = "open"
    /\ sem_result' = "rejected"
    /\ UNCHANGED <<original_type_map, final_type_map, semantic_type, target, file_sel,
                   anchor_sel, anchor_names, anchor_cache, guide_calls, file_filter,
                   file_items, sem_parsed>>

\* InsertSemantics.apply_changes, called once the dialog was accepted: one
\* set_guide_item(container, item_type, title, name, frag) per item of
\* changed_type_map.  known_type_map[item_type] raises KeyError for a type the
\* combo box does not offer, which ends the loop.
apply_changes ==
    /\ sem_result = "accepted"
    /\ LET ctm == changed_type_map(final_type_map, original_type_map)
           known == {KnownTypes[i] : i \in DOMAIN KnownTypes}
       IN IF DOMAIN ctm \subseteq known
          THEN /\ guide_calls' = [t \in AllTypes |->
                     IF t \in DOMAIN ctm THEN Append(guide_calls[t], ctm[t])
                     ELSE guide_calls[t]]
               /\ sem_result' = "applied"
          ELSE /\ \E done \in SUBSET (DOMAIN ctm \cap known) :
                     guide_calls' = [t \in AllTypes |->
                         IF t \in done THEN Append(guide_calls[t], ctm[t])
                         ELSE guide_calls[t]]
               /\ sem_result' = "KeyError"
    /\ UNCHANGED <<original_type_map, final_type_map, semantic_type, target, file_sel,
                   anchor_sel, anchor_names, anchor_cache, file_filter, file_items,
                   sem_parsed>>

\* No InsertSemantics dialog is open.
SemIdle ==
    /\ original_type_map = EmptyMap
    /\ final_type_map = EmptyMap
    /\ semantic_type = KnownTypes[1]
    /\ target = <<"", FALSE, "">>
    /\ file_sel = NoSel
    /\ anchor_sel = NoSel
    /\ anchor_names = <<>>
    /\ anchor_cache = EmptyMap
    /\ guide_calls = [t \in AllTypes |-> <<>>]
    /\ sem_result = "closed"
    /\ file_filter = <<>>
    /\ file_items = SpineNames
    /\ sem_parsed = [n \in SetOf(SpineNames) |-> 0]

\* No ImportForeign dialog is open.
ImportIdle ==
    /\ src = <<>>
    /\ dest = <<>>
    /\ imp_result = "closed"
    /\ imp_error = FALSE
    /\ imp_geometry = 0

\* No QuickOpen dialog is open.
ResultsIdle ==
    /\ results = <<>>
    /\ current_result = -1
    /\ max_result = -1
    /\ height = 0
    /\ selected_result = None
    /\ qo_result = "closed"
    /\ visible = FALSE

(***************************************************************************)
(* InsertLink                                                              *)
(* The text of the target field is <<href, hash, frag>>: what precedes the *)
(* first '#' (a sequence, <<>> for nothing), whether a '#' is there, and   *)
(* what follows it.                                                        *)
(***************************************************************************)

\* The file the link is inserted into: one of the spine, or another file
LinkSources == {"f1", "f2", "s"}

\* The empty target field
EmptyText == <<<<>>, FALSE, "">>

\* Texts the user types into the target field.
LinkTexts == {EmptyText, <<<<"http">>, FALSE, "">>, <<<<>>, TRUE, "top">>}

\* container.name_to_href(name, base): the quoted relative path from base's
\* folder to name, which is not empty for a name other than base
name_to_href(name, base) == <<"href", name, base>>

\* InsertLink.update_target for a selected file, writing href as it is:
InsertLink_update_target_text_bare(file, anchor, source) ==
    LET href == IF file = source THEN <<>> ELSE name_to_href(file, source)
        has_frag == anchor # NoSel /\ anchor # ""
    IN  <<href, has_frag, IF has_frag THEN anchor ELSE "">>

\* InsertLink.update_target for a selected file: the text it sets, href or '#'
InsertLink_update_target_text(file, anchor, source) ==
    LET href == IF file = source THEN <<>> ELSE name_to_href(file, source)
        has_frag == anchor # NoSel /\ anchor # ""
    IN  IF href = <<>> /\ ~has_frag THEN <<<<>>, TRUE, "">>
        ELSE <<href, has_frag, IF has_frag THEN anchor ELSE "">>

\* InsertLink.__init__
LinkInit ==
    /\ il_source \in LinkSources
    /\ il_file_filter = <<>>
    /\ il_file_items = SpineNames
    /\ il_file_sel = NoSel
    /\ il_anchor_filter = <<>>
    /\ il_anchor_names = <<>>
    /\ il_anchor_items = <<>>
    /\ il_anchor_sel = NoSel
    /\ il_anchor_cache = EmptyMap
    /\ il_parsed = [n \in SetOf(SpineNames) |-> 0]
    /\ il_target = EmptyText
    /\ il_result = "open"

\* The user selects a file of the list: selected_file_changed, populate_anchors
\* (set_names resets the anchor list, which drops its selection), update_target
InsertLink_file_selected(name) ==
    /\ il_result = "open"
    /\ find_name(il_file_items, name)
    /\ name # il_file_sel
    /\ il_file_sel' = name
    /\ il_parsed' = [il_parsed EXCEPT ![name] = @ + parse_calls(il_anchor_cache, name)]
    /\ il_anchor_cache' = populate_anchors(il_anchor_cache, name)
    /\ il_anchor_names' = il_anchor_cache'[name]
    /\ il_anchor_items' = il_anchor_cache'[name]
    /\ il_anchor_sel' = NoSel
    /\ il_target' = InsertLink_update_target_text(name, NoSel, il_source)
    /\ UNCHANGED <<il_source, il_file_filter, il_file_items, il_anchor_filter, il_result>>

\* The user deselects the selected file: selected_file_changed with no row
InsertLink_file_deselected ==
    /\ il_result = "open"
    /\ il_file_sel # NoSel
    /\ il_file_sel' = NoSel
    /\ il_anchor_names' = <<>>
    /\ il_anchor_items' = <<>>
    /\ il_anchor_sel' = NoSel
    /\ UNCHANGED <<il_source, il_file_filter, il_file_items, il_anchor_filter,
                   il_anchor_cache, il_parsed, il_target, il_result>>

\* The user edits the filter field of the file list: NamesModel.filter, whose
\* reset() drops the selection without selectionChanged.
InsertLink_file_filter_edited(query) ==
    /\ il_result = "open"
    /\ query # il_file_filter
    /\ il_file_filter' = query
    /\ il_file_items' = NamesModel_filter(SpineNames, query)
    /\ il_file_sel' = NoSel
    /\ UNCHANGED <<il_source, il_anchor_filter, il_anchor_names, il_anchor_items,
                   il_anchor_sel, il_anchor_cache, il_parsed, il_target, il_result>>

\* The user selects (anchor a shown row) or deselects (NoSel) an anchor:
\* update_target, which returns at once when no file is selected
InsertLink_anchor_selected(anchor) ==
    /\ il_result = "open"
    /\ anchor # il_anchor_sel
    /\ il_anchor_sel' = anchor
    /\ il_target' = IF il_file_sel # NoSel
                    THEN InsertLink_update_target_text(il_file_sel, anchor, il_source)
                    ELSE il_target
    /\ UNCHANGED <<il_source, il_file_filter, il_file_items, il_file_sel,
                   il_anchor_filter, il_anchor_names, il_anchor_items, il_anchor_cache,
                   il_parsed, il_result>>

\* The user edits the filter field of the anchor list: NamesModel.filter
InsertLink_anchor_filter_edited(query) ==
    /\ il_result = "open"
    /\ query # il_anchor_filter
    /\ il_anchor_filter' = query
    /\ il_anchor_items' = NamesModel_filter(il_anchor_names, query)
    /\ il_anchor_sel' = NoSel
    /\ UNCHANGED <<il_source, il_file_filter, il_file_items, il_file_sel,
                   il_anchor_names, il_anchor_cache, il_parsed, il_target, il_result>>

\* The user edits the target field; nothing is connected to it.
InsertLink_target_edited(text) ==
    /\ il_result = "open"
    /\ text # il_target
    /\ il_target' = text
    /\ UNCHANGED <<il_source, il_file_filter, il_file_items, il_file_sel,
                   il_anchor_filter, il_anchor_names, il_anchor_items, il_anchor_sel,
                   il_anchor_cache, il_parsed, il_result>>

\* OK button, or a double click on an anchor (queued): Dialog.accept
accept_InsertLink ==
    /\ il_result = "open"
    /\ il_result' = "accepted"
    /\ UNCHANGED <<il_source, il_file_filter, il_file_items, il_file_sel,
                   il_anchor_filter, il_anchor_names, il_anchor_items, il_anchor_sel,
                   il_anchor_cache, il_parsed, il_target>>

\* Cancel button or Escape: Dialog.reject
reject_InsertLink ==
    /\ il_result = "open"
    /\ il_result' = "rejected"
    /\ UNCHANGED <<il_source, il_file_filter, il_file_items, il_file_sel,
                   il_anchor_filter, il_anchor_names, il_anchor_items, il_anchor_sel,
                   il_anchor_cache, il_parsed, il_target>>

\* No InsertLink dialog is open.
LinkIdle ==
    /\ il_source = "s"
    /\ il_file_filter = <<>>
    /\ il_file_items = SpineNames
    /\ il_file_sel = NoSel
    /\ il_anchor_filter = <<>>
    /\ il_anchor_names = <<>>
    /\ il_anchor_items = <<>>
    /\ il_anchor_sel = NoSel
    /\ il_anchor_cache = EmptyMap
    /\ il_parsed = [n \in SetOf(SpineNames) |-> 0]
    /\ il_target = EmptyText
    /\ il_result = "closed"

(***************************************************************************)
(* Dialog: window geometry kept in tprefs; MultiSplit                      *)
(* One dialog object at a time; the store outlives the dialog objects.     *)
(***************************************************************************)

\* Bounds of the model.
MaxGeometry == 2     \* window geometries are 0..MaxGeometry
MaxSplitter == 1     \* splitter states are 0..MaxSplitter

\* self.resize(self.sizeHint()): the geometry of a dialog never saved before
SizeHint == 0

\* tprefs.get(key, None) for a key that was never set
NoPref == <<>>

\* The names Dialog.__init__ is called with.  'multisplit-xpath' is MultiSplit;
\* 'with-splitter' is a subclass whose setup_ui creates self.splitter.
DialogNames == {"multisplit-xpath", "with-splitter"}

\* hasattr(self, 'splitter')
hasattr_splitter(name) == name = "with-splitter"

\* The keys name + '-geometry' and name + '-splitter-state'
PrefKeys == DialogNames \X {"-geometry", "-splitter-state"}

\* bytearray(self.saveGeometry()) and self.restoreGeometry(geom): the byte
\* string is the one-element sequence holding the geometry.
saveGeometry(g) == <<g>>
restoreGeometry(geom) == geom[1]

\* bytearray(self.splitter.saveState()) and self.splitter.restoreState(state)
saveState(s) == <<s>>
restoreState(state) == state[1]

\* The expressions typed into the XPathEdit; check() compiles the text.
XPaths == {"", "//h:h1", "//h:h1["}
XPathEdit_check(text) == text # "//h:h1["

\* error_dialog(parent, title, msg, show=False): the message box is built,
\* and run modally only when show is true; otherwise it is returned unshown.
error_dialog(show) == IF show THEN "shown" ELSE "created"

\* The two tprefs.set calls of Dialog.accept and Dialog.reject, geometry only:
\* what the store would hold if the splitter state were not written.
Dialog_save_geometry_only(prefs, name, g, s) ==
    [prefs EXCEPT ![<<name, "-geometry">>] = saveGeometry(g)]

\* The two tprefs.set calls of Dialog.accept and Dialog.reject
Dialog_save(prefs, name, g, s) ==
    LET withGeometry == [prefs EXCEPT ![<<name, "-geometry">>] = saveGeometry(g)]
    IN  IF hasattr_splitter(name)
        THEN [withGeometry EXCEPT ![<<name, "-splitter-state">>] = saveState(s)]
        ELSE withGeometry

\* The geometry Dialog.__init__ leaves the window with
Dialog_init_geometry(prefs, name) ==
    LET geom == prefs[<<name, "-geometry">>]
    IN  IF geom # NoPref THEN restoreGeometry(geom) ELSE SizeHint

\* The splitter state Dialog.__init__ leaves (0 when there is no splitter)
Dialog_init_splitter(prefs, name) ==
    IF hasattr_splitter(name)
    THEN LET state == prefs[<<name, "-splitter-state">>]
         IN  IF state # NoPref THEN restoreState(state) ELSE 0
    ELSE 0

\* Dialog.__init__(title, name): a new dialog object, after the last one closed
Dialog_init(name) ==
    /\ dlg_pc \in {"accepted", "rejected"}
    /\ dlg_name' = name
    /\ dlg_geometry' = Dialog_init_geometry(tprefs, name)
    /\ dlg_splitter' = Dialog_init_splitter(tprefs, name)
    /\ xpath' = ""
    /\ dlg_error' = "none"
    /\ dlg_pc' = "open"
    /\ UNCHANGED tprefs

\* The user moves or resizes the window.
set_geometry(g) ==
    /\ dlg_pc = "open"
    /\ dlg_geometry' = g
    /\ dlg_error' = "none"
    /\ UNCHANGED <<dlg_name, dlg_pc, dlg_splitter, tprefs, xpath>>

\* The user drags the splitter handle.
move_splitter(s) ==
    /\ dlg_pc = "open"
    /\ hasattr_splitter(dlg_name)
    /\ dlg_splitter' = s
    /\ dlg_error' = "none"
    /\ UNCHANGED <<dlg_name, dlg_pc, dlg_geometry, tprefs, xpath>>

\* The user types an expression into MultiSplit's XPathEdit.
edit_xpath(text) ==
    /\ dlg_pc = "open"
    /\ dlg_name = "multisplit-xpath"
    /\ xpath' = text
    /\ dlg_error' = "none"
    /\ UNCHANGED <<dlg_name, dlg_pc, dlg_geometry, dlg_splitter, tprefs>>

\* OK button: MultiSplit.accept for MultiSplit, Dialog.accept otherwise, up to
\* the tprefs.set calls.
Dialog_accept ==
    /\ dlg_pc = "open"
    /\ IF dlg_name = "multisplit-xpath" /\ ~XPathEdit_check(xpath)
       THEN /\ dlg_error' = error_dialog(FALSE)
            /\ UNCHANGED <<dlg_pc, tprefs>>
       ELSE /\ tprefs' = Dialog_save(tprefs, dlg_name, dlg_geometry, dlg_splitter)
            /\ dlg_pc' = "accepting"
            /\ dlg_error' = "none"
    /\ UNCHANGED <<dlg_name, dlg_geometry, dlg_splitter, xpath>>

\* The last statement of Dialog.accept: QDialog.accept(self)
QDialog_accept ==
    /\ dlg_pc = "accepting"
    /\ dlg_pc' = "accepted"
    /\ UNCHANGED <<dlg_name, dlg_geometry, dlg_splitter, tprefs, xpath, dlg_error>>

\* Cancel button or Escape: Dialog.reject up to the tprefs.set calls
Dialog_reject ==
    /\ dlg_pc = "open"
    /\ tprefs' = Dialog_save(tprefs, dlg_name, dlg_geometry, dlg_splitter)
    /\ dlg_pc' = "rejecting"
    /\ dlg_error' = "none"
    /\ UNCHANGED <<dlg_name, dlg_geometry, dlg_splitter, xpath>>

\* The last statement of Dialog.reject: QDialog.reject(self)
QDialog_reject ==
    /\ dlg_pc = "rejecting"
    /\ dlg_pc' = "rejected"
    /\ UNCHANGED <<dlg_name, dlg_geometry, dlg_splitter, tprefs, xpath, dlg_error>>

\* The first dialog ever constructed: nothing is stored yet.
DialogInit ==
    /\ tprefs = [k \in PrefKeys |-> NoPref]
    /\ dlg_name \in DialogNames
    /\ dlg_geometry = SizeHint
    /\ dlg_splitter = 0
    /\ xpath = ""
    /\ dlg_error = "none"
    /\ dlg_pc = "open"

\* No such dialog was ever opened.
DialogIdle ==
    /\ tprefs = [k \in PrefKeys |-> NoPref]
    /\ dlg_name = "multisplit-xpath"
    /\ dlg_geometry = SizeHint
    /\ dlg_splitter = 0
    /\ xpath = ""
    /\ dlg_error = "none"
    /\ dlg_pc = "closed"

(***************************************************************************)
(* Specifications: one dialog, or one call, at a time                      *)
(***************************************************************************)

InitResults == ResultsInit /\ HLIdle /\ ImportIdle /\ SemIdle /\ DialogIdle /\ LinkIdle

NextResults ==
    \/ \E n \in 0..MaxResults :
           set_results(n) /\ UNCHANGED <<hlVars, impVars, semVars, dlgVars, linkVars>>
    \/ \E key \in {"Key_Up", "Key_Down"} :
           keyPressEvent(key) /\ UNCHANGED <<hlVars, impVars, semVars, dlgVars, linkVars>>
    \/ \E button \in {1, 2}, y \in 0..(height - 1) :
           mousePressEvent(button, y) /\ UNCHANGED <<hlVars, impVars, semVars, dlgVars, linkVars>>
    \/ paintEvent /\ UNCHANGED <<hlVars, impVars, semVars, dlgVars, linkVars>>
    \/ \E h \in 0..MaxHeight :
           resizeEvent(h) /\ UNCHANGED <<hlVars, impVars, semVars, dlgVars, linkVars>>
    \/ accept_QuickOpen /\ UNCHANGED <<hlVars, impVars, semVars, dlgVars, linkVars>>
    \/ reject_QuickOpen /\ UNCHANGED <<hlVars, impVars, semVars, dlgVars, linkVars>>

SpecResults == InitResults /\ [][NextResults]_vars

InitHighlight == HLInit /\ ResultsIdle /\ ImportIdle /\ SemIdle /\ DialogIdle /\ LinkIdle

NextHighlight ==
    call_make_highlighted_text /\ UNCHANGED <<resVars, impVars, semVars, dlgVars, linkVars>>

SpecHighlight == InitHighlight /\ [][NextHighlight]_vars

InitImport == ImportInit /\ ResultsIdle /\ HLIdle /\ SemIdle /\ DialogIdle /\ LinkIdle

NextImport ==
    \/ \E text \in SeqsUpTo(PathChars, MaxPath) :
           edit_src(text) /\ UNCHANGED <<resVars, hlVars, semVars, dlgVars, linkVars>>
    \/ \E text \in SeqsUpTo(PathChars, MaxPath) :
           edit_dest(text) /\ UNCHANGED <<resVars, hlVars, semVars, dlgVars, linkVars>>
    \/ \E path \in SourcePaths :
           choose_source(path) /\ UNCHANGED <<resVars, hlVars, semVars, dlgVars, linkVars>>
    \/ \E path \in SavePaths :
           choose_destination(path) /\ UNCHANGED <<resVars, hlVars, semVars, dlgVars, linkVars>>
    \/ accept_ImportForeign /\ UNCHANGED <<resVars, hlVars, semVars, dlgVars, linkVars>>
    \/ reject_ImportForeign /\ UNCHANGED <<resVars, hlVars, semVars, dlgVars, linkVars>>

SpecImport == InitImport /\ [][NextImport]_vars

InitSemantics == SemInit /\ ResultsIdle /\ HLIdle /\ ImportIdle /\ DialogIdle /\ LinkIdle

NextSemantics ==
    \/ \E i \in DOMAIN KnownTypes :
           semantic_type_changed(KnownTypes[i]) /\ UNCHANGED <<resVars, hlVars, impVars, dlgVars, linkVars>>
    \/ \E text \in TypedTexts :
           target_text_edited(text) /\ UNCHANGED <<resVars, hlVars, impVars, dlgVars, linkVars>>
    \/ \E i \in DOMAIN SpineNames :
           file_selected(SpineNames[i]) /\ UNCHANGED <<resVars, hlVars, impVars, dlgVars, linkVars>>
    \/ file_deselected /\ UNCHANGED <<resVars, hlVars, impVars, dlgVars, linkVars>>
    \/ \E query \in FilterQueries :
           file_filter_edited(query) /\ UNCHANGED <<resVars, hlVars, impVars, dlgVars, linkVars>>
    \/ \E a \in {anchor_names[i] : i \in DOMAIN anchor_names} \cup {NoSel} :
           anchor_selected(a) /\ UNCHANGED <<resVars, hlVars, impVars, dlgVars, linkVars>>
    \/ accept_InsertSemantics /\ UNCHANGED <<resVars, hlVars, impVars, dlgVars, linkVars>>
    \/ reject_InsertSemantics /\ UNCHANGED <<resVars, hlVars, impVars, dlgVars, linkVars>>
    \/ apply_changes /\ UNCHANGED <<resVars, hlVars, impVars, dlgVars, linkVars>>

SpecSemantics == InitSemantics /\ [][NextSemantics]_vars

\* InsertSemantics when the user only looks: the combo box is the only widget
\* used before the dialog is closed.
NextViewing ==
    \/ \E i \in DOMAIN KnownTypes :
           semantic_type_changed(KnownTypes[i]) /\ UNCHANGED <<resVars, hlVars, impVars, dlgVars, linkVars>>
    \/ accept_InsertSemantics /\ UNCHANGED <<resVars, hlVars, impVars, dlgVars, linkVars>>
    \/ reject_InsertSemantics /\ UNCHANGED <<resVars, hlVars, impVars, dlgVars, linkVars>>
    \/ apply_changes /\ UNCHANGED <<resVars, hlVars, impVars, dlgVars, linkVars>>

SpecViewing == InitSemantics /\ [][NextViewing]_vars

InitDialog == DialogInit /\ ResultsIdle /\ HLIdle /\ ImportIdle /\ SemIdle /\ LinkIdle

NextDialog ==
    \/ \E name \in DialogNames :
           Dialog_init(name) /\ UNCHANGED <<resVars, hlVars, impVars, semVars, linkVars>>
    \/ \E g \in 0..MaxGeometry :
           set_geometry(g) /\ UNCHANGED <<resVars, hlVars, impVars, semVars, linkVars>>
    \/ \E s \in 0..MaxSplitter :
           move_splitter(s) /\ UNCHANGED <<resVars, hlVars, impVars, semVars, linkVars>>
    \/ \E text \in XPaths :
           edit_xpath(text) /\ UNCHANGED <<resVars, hlVars, impVars, semVars, linkVars>>
    \/ Dialog_accept /\ UNCHANGED <<resVars, hlVars, impVars, semVars, linkVars>>
    \/ QDialog_accept /\ UNCHANGED <<resVars, hlVars, impVars, semVars, linkVars>>
    \/ Dialog_reject /\ UNCHANGED <<resVars, hlVars, impVars, semVars, linkVars>>
    \/ QDialog_reject /\ UNCHANGED <<resVars, hlVars, impVars, semVars, linkVars>>

SpecDialog == InitDialog /\ [][NextDialog]_vars

InitLink == LinkInit /\ ResultsIdle /\ HLIdle /\ ImportIdle /\ SemIdle /\ DialogIdle

NextLink ==
    \/ \E i \in DOMAIN SpineNames :
           InsertLink_file_selected(SpineNames[i])
               /\ UNCHANGED <<resVars, hlVars, impVars, semVars, dlgVars>>
    \/ InsertLink_file_deselected /\ UNCHANGED <<resVars, hlVars, impVars, semVars, dlgVars>>
    \/ \E query \in FilterQueries :
           InsertLink_file_filter_edited(query)
               /\ UNCHANGED <<resVars, hlVars, impVars, semVars, dlgVars>>
    \/ \E a \in SetOf(il_anchor_items) \cup {NoSel} :
           InsertLink_anchor_selected(a)
               /\ UNCHANGED <<resVars, hlVars, impVars, semVars, dlgVars>>
    \/ \E query \in FilterQueries :
           InsertLink_anchor_filter_edited(query)
               /\ UNCHANGED <<resVars, hlVars, impVars, semVars, dlgVars>>
    \/ \E text \in LinkTexts :
           InsertLink_target_edited(text)
               /\ UNCHANGED <<resVars, hlVars, impVars, semVars, dlgVars>>
    \/ accept_InsertLink /\ UNCHANGED <<resVars, hlVars, impVars, semVars, dlgVars>>
    \/ reject_InsertLink /\ UNCHANGED <<resVars, hlVars, impVars, semVars, dlgVars>>

SpecLink == InitLink /\ [][NextLink]_vars

\* Either dialog with an anchor list, one at a time.
InitAnchors == InitSemantics \/ InitLink

NextAnchors == NextSemantics \/ NextLink

SpecAnchors == InitAnchors /\ [][NextAnchors]_vars

(***************************************************************************)
(* Properties                                                              *)
(***************************************************************************)

\* The rows that fit a widget of height h: row i is painted when
\* i * (RowHeight + MARGIN) + RowHeight <= h - 1.
Capacity(h) ==
    IF h - 1 < RowHeight THEN 0 ELSE (h - 1 - RowHeight) \div (RowHeight + MARGIN) + 1

\* C1: current_result is an index of the result set: in 0..len(results)-1 when
\* results is non-empty, -1 when it is empty, never None.
C1Claim ==
    IF results = <<>> THEN current_result = -1
    ELSE current_result \in 0..(Len(results) - 1)

\* C2: with a non-empty result set, 0 <= current_result <= max_result in every
\* reachable state.
C2Claim ==
    results # <<>> => (0 <= current_result /\ current_result <= max_result)

\* C3: change_current clamps and never wraps: in every state of the open dialog
\* it is a no-op at 0 going up and at max_result going down, a change by exactly
\* delta in every other case with results, and no change without results.
C3Claim ==
    qo_result = "open" =>
        \A d \in {-1, 1} :
            new_current(d) =
                IF results = <<>> THEN current_result
                ELSE IF d = -1 /\ current_result = 0 THEN current_result
                ELSE IF d = 1 /\ current_result = max_result THEN current_result
                ELSE current_result + d

\* C4: what set-results and every repaint leave: max_result + 1 is
\* min(N, C, 11) for N results and a capacity of C rows.
C4Claim ==
    (qo_result = "open" /\ visible) =>
        /\ painted_max_result + 1 =
               Min(Len(results), Min(Capacity(height), MaxRows + 1))
        /\ \A n \in 0..MaxResults :
               max_result_for(n) + 1 = Min(n, Min(Capacity(height), MaxRows + 1))

\* C4 as amended: set-results leaves max_result = min(10, N - 1); a repaint in
\* which at least one row fits leaves max_result + 1 = min(N, C), with no fixed
\* maximum, and any other repaint leaves max_result as it was; max_result is
\* never beyond the last row.
C4Amended ==
    /\ max_result <= Len(results) - 1
    /\ (qo_result = "open" /\ visible) =>
        /\ painted_max_result =
               IF results # <<>> /\ Capacity(height) >= 1
               THEN Min(Len(results), Capacity(height)) - 1
               ELSE max_result
        /\ \A n \in 0..MaxResults :
               max_result_for(n) = IF n > MaxRows THEN MaxRows ELSE n - 1

\* More than MaxRows + 1 rows are addressable after a repaint of a tall widget.
C4Witness == visible /\ max_result > MaxRows /\ max_result = Len(results) - 1

\* text with the characters at the positions of S each wrapped in a span.
RECURSIVE WrapFrom(_, _, _)
WrapFrom(text, S, i) ==
    IF i >= Len(text) THEN <<>>
    ELSE (IF i \in S THEN span_format(<<>>, EMPH, <<text[i + 1]>>, <<>>)
          ELSE <<text[i + 1]>>)
         \o WrapFrom(text, S, i + 1)

\* The XML-escaped raw string in which the characters of raw at the positions of
\* S are each wrapped in a span.
RECURSIVE EscapeAndWrapFrom(_, _, _)
EscapeAndWrapFrom(raw, S, i) ==
    IF i >= Len(raw) THEN <<>>
    ELSE (IF i \in S
          THEN span_format(<<>>, EMPH, prepare_string_for_xml(<<raw[i + 1]>>), <<>>)
          ELSE prepare_string_for_xml(<<raw[i + 1]>>))
         \o EscapeAndWrapFrom(raw, S, i + 1)

\* C5: for a set of valid indices of the raw string S, the output is the
\* XML-escaped S with exactly the characters of S at those indices wrapped.
C5Claim ==
    (hl_pc = "done" /\ -1 \notin SetOf(hl_positions)) =>
        hl_out = EscapeAndWrapFrom(hl_text, SetOf(hl_positions), 0)

\* C6: with no position the result is the XML-escaped string, with no span.
C6Theorem ==
    (hl_pc = "done" /\ hl_positions = <<>>) =>
        hl_out = prepare_string_for_xml(hl_text)

C6Witness ==
    hl_pc = "done" /\ hl_positions = <<>> /\ "&" \in SetOf(hl_text)

\* C7: -1 is excluded wherever it stands in the positions: the result is what
\* the positions other than -1 give, whatever their order and repetitions, and
\* positions holding nothing but -1 give the result of no position.
C7Theorem ==
    hl_pc = "done" =>
        /\ hl_out = WrapFrom(prepare_string_for_xml(hl_text),
                             SetOf(hl_positions) \ {-1}, 0)
        /\ hl_out = make_highlighted_text(EMPH, hl_text,
                        SelectSeq(hl_positions, LAMBDA p : p # -1))
        /\ SetOf(hl_positions) = {-1} => hl_out = make_highlighted_text(EMPH, hl_text, <<>>)

C7Witness ==
    /\ hl_pc = "done"
    /\ Len(hl_text) = 2
    /\ Len(hl_positions) = 3
    /\ hl_positions[1] = 0 /\ hl_positions[2] = -1 /\ hl_positions[3] = 0

\* The keys of the map whose current value differs from the original snapshot.
DifferingKeys ==
    {k \in DOMAIN final_type_map :
        k \notin DOMAIN original_type_map \/ final_type_map[k] # original_type_map[k]}

\* C8: changed_type_map holds exactly the keys whose current value differs from
\* the original snapshot, each with its current value; they are types the dialog
\* offers, and apply_changes calls set_guide_item once for each of them, with that
\* value, and for no other key.
C8Theorem ==
    LET ctm == changed_type_map(final_type_map, original_type_map)
    IN /\ DOMAIN ctm = DifferingKeys
       /\ \A k \in DOMAIN ctm : ctm[k] = final_type_map[k]
       /\ DifferingKeys \subseteq {KnownTypes[i] : i \in DOMAIN KnownTypes}
       /\ sem_result \in {"open", "accepted", "rejected"} =>
              \A t \in AllTypes : guide_calls[t] = <<>>
       /\ sem_result # "KeyError"
       /\ sem_result = "applied" =>
              \A t \in AllTypes :
                 guide_calls[t] = IF t \in DifferingKeys THEN <<final_type_map[t]>>
                                  ELSE <<>>

\* apply_changes has written one entry and left an unchanged one alone.
C8Witness ==
    /\ sem_result = "applied"
    /\ \E t \in AllTypes : guide_calls[t] # <<>>
    /\ \E t \in DOMAIN final_type_map \cap {KnownTypes[i] : i \in DOMAIN KnownTypes} :
           guide_calls[t] = <<>>

\* The text the target field shows for a type when the dialog opens.
original_text(typ) ==
    IF typ \in DOMAIN original_type_map
    THEN shown_text(original_type_map[typ][1], original_type_map[typ][2])
    ELSE <<"", FALSE, "">>

\* C9: once an edit of the target, typed or made by selecting a file or an
\* anchor, has put the target back to the location the type had when the dialog
\* opened (the empty text for a type without entry), the type is absent from
\* changed_type_map.
C9Claim ==
    [][(/\ sem_result = "open"
        /\ semantic_type' = semantic_type
        /\ target' # target
        /\ target' = original_text(semantic_type)) =>
          semantic_type \notin
              DOMAIN changed_type_map(final_type_map', original_type_map')]_vars

\* C10: an accepted ImportForeign has a non-empty source path in data[0]; an
\* accept attempt with an empty source leaves the dialog open, shows the error
\* and saves no geometry.
C10Claim ==
    /\ imp_result = "accepted" => ImportForeign_data(src, dest)[1] # <<>>
    /\ imp_error => (imp_result = "open" /\ imp_geometry = 0)

\* Where the current dialog's geometry and splitter state are stored
geometry_key == <<dlg_name, "-geometry">>
splitter_key == <<dlg_name, "-splitter-state">>

\* C11: an accept attempt on a MultiSplit whose XPath expression is invalid
\* leaves the dialog open and shows a modal error message, as the empty source
\* of ImportForeign does; the dialog is accepted only with a valid expression.
C11Claim ==
    /\ dlg_error # "none" => (dlg_error = "shown" /\ dlg_pc = "open")
    /\ (dlg_name = "multisplit-xpath" /\ dlg_pc \in {"accepting", "accepted"})
           => XPathEdit_check(xpath)

\* C12: when a dialog is about to enter, or is in, its accepted or rejected
\* state, tprefs already holds its current geometry under '<name>-geometry'
\* (and its splitter state under '<name>-splitter-state' when it has a
\* splitter); and a newly constructed dialog has exactly the geometry and
\* splitter state stored under its name.
C12Closed ==
    dlg_pc \in {"accepting", "accepted", "rejecting", "rejected"} =>
        /\ tprefs[geometry_key] # NoPref
        /\ restoreGeometry(tprefs[geometry_key]) = dlg_geometry
        /\ hasattr_splitter(dlg_name) =>
               /\ tprefs[splitter_key] # NoPref
               /\ restoreState(tprefs[splitter_key]) = dlg_splitter
C12Constructed ==
    (dlg_pc \in {"accepted", "rejected"} /\ dlg_pc' = "open") =>
        /\ tprefs'[geometry_key'] # NoPref => dlg_geometry' = restoreGeometry(tprefs'[geometry_key'])
        /\ (hasattr_splitter(dlg_name') /\ tprefs'[splitter_key'] # NoPref)
               => dlg_splitter' = restoreState(tprefs'[splitter_key'])
        /\ tprefs' = tprefs
C12Theorem == []C12Closed /\ [][C12Constructed]_vars

\* A dialog with a splitter is open again after an earlier one was closed: it
\* shows the geometry and the splitter state stored under its name, while
\* another geometry is stored under the other dialog's name.
C12Witness ==
    /\ dlg_name = "with-splitter"
    /\ dlg_pc = "open"
    /\ tprefs[geometry_key] = saveGeometry(MaxGeometry)
    /\ dlg_geometry = MaxGeometry
    /\ tprefs[splitter_key] = saveState(MaxSplitter)
    /\ dlg_splitter = MaxSplitter
    /\ tprefs[<<"multisplit-xpath", "-geometry">>] = saveGeometry(1)

\* C13: as long as the user only changes the selected semantic type, and edits
\* nothing, final_type_map equals original_type_map and changed_type_map is
\* empty.
C13Claim ==
    /\ final_type_map = original_type_map
    /\ DOMAIN changed_type_map(final_type_map, original_type_map) = {}

\* C14: QuickOpen.accept, by the OK button or by a left click on the results,
\* completes without raising; it sets selected_result to the candidate text of
\* row current_result when there are results and to None when there are none.
C14Claim ==
    /\ qo_result = "open" => current_result # None
    /\ qo_result = "accepted" =>
           IF Len(results) > 0
           THEN /\ current_result \in 0..(Len(results) - 1)
                /\ selected_result = results[current_result + 1]
           ELSE selected_result = None

\* A path without its final extension: what precedes the last '.', and the
\* whole path when it holds no '.'.
stem(path) ==
    IF \E i \in DOMAIN path : path[i] = "." THEN rpartition_head(path, ".") ELSE path

\* C15: ImportForeign.data returns the stripped source; with a blank
\* destination and a non-empty source the destination is the source's stem
\* followed by '.epub', also for a source without '.'; a non-blank destination
\* is returned stripped and otherwise unchanged.
C15Claim ==
    LET data == ImportForeign_data(src, dest)
    IN  /\ data[1] = strip(src)
        /\ (strip(dest) = <<>> /\ strip(src) # <<>>) => data[2] = stem(strip(src)) \o EPUB
        /\ strip(dest) # <<>> => data[2] = strip(dest)

\* The text the target field should hold for a selected file and an anchor
\* (NoSel for none): '#' or '#anchor' for the source file, else the href of the
\* file, followed by '#anchor' when an anchor is selected.
link_text(file, anchor, source) ==
    IF file = source
    THEN IF anchor = NoSel THEN <<<<>>, TRUE, "">> ELSE <<<<>>, TRUE, anchor>>
    ELSE IF anchor = NoSel THEN <<name_to_href(file, source), FALSE, "">>
         ELSE <<name_to_href(file, source), TRUE, anchor>>

\* A selection change made through a list, not by editing a filter field: the
\* events that run update_target, or selected_file_changed with no row.
link_selection_changed ==
    /\ il_file_sel' # il_file_sel \/ il_anchor_sel' # il_anchor_sel
    /\ il_file_filter' = il_file_filter
    /\ il_anchor_filter' = il_anchor_filter

\* C16: in InsertLink, after a selection change with a file selected the target
\* field is not empty: it holds '#' or '#<anchor>' when the file is the source
\* file and name_to_href(file, source), followed by '#<anchor>' when an anchor
\* is selected, otherwise; with no file selected the field is left as it was.
C16Step ==
    link_selection_changed =>
        IF il_file_sel' # NoSel
        THEN /\ il_target' = link_text(il_file_sel', il_anchor_sel', il_source)
             /\ il_target' # EmptyText
        ELSE il_target' = il_target
C16Theorem == [][C16Step]_vars

\* The source file is selected without an anchor and the field holds '#'.
C16Witness ==
    /\ il_file_sel = il_source
    /\ il_anchor_sel = NoSel
    /\ il_anchor_names # <<>>
    /\ il_target = <<<<>>, TRUE, "">>

\* list holds each id and each a/@name value of the file once, the empty
\* string left out, in the order of primary_sort_key.
is_anchor_list(list, name) ==
    /\ SetOf(list) = (SetOf(xpath_ids(name)) \cup SetOf(xpath_a_names(name))) \ {""}
    /\ \A i, j \in DOMAIN list :
           i < j => primary_sort_key(list[i]) < primary_sort_key(list[j])

\* What C17 says of one dialog in one state: parsed counts the calls of
\* container.parsed, cache is anchor_cache, sel the selected file and names the
\* names of the anchor list.
anchors_cached(parsed, cache, sel, names) ==
    /\ \A n \in DOMAIN parsed :
           /\ parsed[n] <= 1
           /\ parsed[n] = 1 <=> n \in DOMAIN cache
    /\ \A n \in DOMAIN cache : is_anchor_list(cache[n], n)
    /\ sel # NoSel => (sel \in DOMAIN cache /\ names = cache[sel])

\* What C17 says of one step of one dialog: an entry of the cache stays as it
\* is, and a selection change (the filter field is not edited) that leaves no
\* file selected empties the anchor list.
anchors_kept(cache, cache_, sel, sel_, filter, filter_, names_) ==
    /\ \A n \in DOMAIN cache : n \in DOMAIN cache_ /\ cache_[n] = cache[n]
    /\ (sel # NoSel /\ sel_ = NoSel /\ filter_ = filter) => names_ = <<>>

\* C17: in InsertLink and in InsertSemantics container.parsed(name) is called at
\* most once per file name; the anchor list of a selected file is the entry of
\* anchor_cache, which is the file's ids and a/@name values without '', sorted
\* and without duplicates, and never changes once made; and a selection change
\* that leaves no file selected empties the anchor list.
C17State ==
    /\ anchors_cached(il_parsed, il_anchor_cache, il_file_sel, il_anchor_names)
    /\ anchors_cached(sem_parsed, anchor_cache, file_sel, anchor_names)
C17Step ==
    /\ anchors_kept(il_anchor_cache, il_anchor_cache', il_file_sel, il_file_sel',
                    il_file_filter, il_file_filter', il_anchor_names')
    /\ anchors_kept(anchor_cache, anchor_cache', file_sel, file_sel',
                    file_filter, file_filter', anchor_names')
====
